---- MODULE Spec2Model ----
(***************************************************************************)
(* Model of libmachine/drivers/plugin/localbinary/plugin.go: the local     *)
(* plugin binary supervisor (Plugin.Serve / Address / Close), its relay    *)
(* goroutines (stream) and the child process behind Executor.              *)
(*                                                                         *)
(* Strings are sequences of one-character strings; the empty Go string is  *)
(* <<>>.  The child's pipes hold whole lines (the tokens bufio.Scanner     *)
(* with ScanLines hands out).  Every goroutine has a program counter and   *)
(* moves from one blocking point to the next in one action.                *)
(***************************************************************************)
EXTENDS Integers, Sequences, FiniteSets, TLC

\* ------------------------------------------------------------------ bounds
MaxOut == 3          \* log lines the child may write on stdout after the first
MaxErr == 1          \* lines the child may write on stderr
PipeCap == 1         \* lines an OS pipe holds before the child's write blocks
MaxAddrCalls == 2    \* Address calls made by the caller
MaxCloseCalls == 2   \* Plugin.Close calls made by the caller

\* --------------------------------------------------------------- constants
defaultTimeout == 10
\* The first lines a child may print: blank, bare, padded.
AddrLines ==
  { <<" ">>, <<"a">>, <<" ", "a", " ">> }

\* The k-th line a child prints on a stream after the handshake line.
LogLine(k) == IF k % 2 = 1 THEN <<"x">> ELSE <<"y", " ">>

LogScript(n) == [k \in 1..n |-> LogLine(k)]

MachineNames == {"vm"}

Callers == {1}
Streams == {"out", "err"}

\* ----------------------------------------------------------- pure helpers
Whitespace == {" ", "\t", "\n", "\r"}

RECURSIVE TrimLeft(_, _)
TrimLeft(s, cutset) ==
  IF s # <<>> /\ Head(s) \in cutset THEN TrimLeft(Tail(s), cutset) ELSE s

RECURSIVE TrimRight(_, _)
TrimRight(s, cutset) ==
  IF s # <<>> /\ s[Len(s)] \in cutset
    THEN TrimRight(SubSeq(s, 1, Len(s) - 1), cutset)
    ELSE s

\* strings.Trim(s, cutset)
Trim(s, cutset) == TrimRight(TrimLeft(s, cutset), cutset)

\* strings.TrimSpace(s)
TrimSpace(s) == Trim(s, Whitespace)

\* Mutant: stream trims all surrounding whitespace instead of newlines.
StreamText_Mut(line) == TrimSpace(line)

\* strings.Trim(line, "\n"), the text stream hands to the event loop
StreamText(line) == Trim(line, {"\n"})

\* strings.TrimSpace(addr), the value execServer sends on addrCh
PublishedAddr(addr) == TrimSpace(addr)

\* log.Infof(pluginOut, lbp.MachineName, out)
InfoRecord(name, text) == [level |-> "info", tag |-> name, text |-> text]

\* log.Debugf(pluginErr, lbp.MachineName, err)
DebugRecord(name, text) == [level |-> "debug", tag |-> name, text |-> text]

Digits == {"0", "1", "2", "3", "4", "5", "6", "7", "8", "9"}

\* strconv.Atoi succeeds: an optional sign, then at least one digit
AtoiOk(s) ==
  LET body == IF s # <<>> /\ Head(s) \in {"+", "-"} THEN Tail(s) ELSE s
  IN  body # <<>> /\ \A i \in 1..Len(body) : body[i] \in Digits

\* What os.Getenv(PluginUID) / os.Getenv(PluginGID) may yield.
EnvVals == { <<>>, <<"7">>, <<"x">> }

\* Mutant: one identity variable alone is enough to take the override path.
StartResult_Mut(uid, gid, pipeOk, startOk) ==
  LET both == uid # <<>> \/ gid # <<>>
  IN  IF both /\ ~AtoiOk(uid) THEN [err |-> "parse_uid", cred |-> "inherit"]
      ELSE IF both /\ ~AtoiOk(gid) THEN [err |-> "parse_gid", cred |-> "inherit"]
      ELSE IF ~pipeOk THEN [err |-> "pipe", cred |-> "inherit"]
      ELSE IF ~startOk THEN [err |-> "start", cred |-> "inherit"]
      ELSE [err |-> "nil", cred |-> IF both THEN "override" ELSE "inherit"]

\* Executor.Start, as a function of the environment and of what the OS
\* answers to StdoutPipe/StderrPipe and to cmd.Start.
StartResult(uid, gid, pipeOk, startOk) ==
  LET both == uid # <<>> /\ gid # <<>>
  IN  IF both /\ ~AtoiOk(uid) THEN [err |-> "parse_uid", cred |-> "inherit"]
      ELSE IF both /\ ~AtoiOk(gid) THEN [err |-> "parse_gid", cred |-> "inherit"]
      ELSE IF ~pipeOk THEN [err |-> "pipe", cred |-> "inherit"]
      ELSE IF ~startOk THEN [err |-> "start", cred |-> "inherit"]
      ELSE [err |-> "nil", cred |-> IF both THEN "override" ELSE "inherit"]

StartErrors == {"parse_uid", "parse_gid", "pipe", "start"}

\* The value Start stores under PluginEnvKey.
PluginEnvVal == "42"

\* The Executors of one supervising process and their DriverName fields.
\* Executor 1 is the one behind the Plugin that Serve runs.
Executors == {1, 2, 3}

DriverNameOf(e) ==
  CASE e = 1 -> <<"d1">>
    [] e = 2 -> <<"d2">>
    [] e = 3 -> <<"d3">>

\* ------------------------------------------------------------- NewPlugin
\* Paths and names are sequences of path atoms; "/" is the separator.
CoreDrivers ==
  { <<"amazonec2">>, <<"azure">>, <<"digitalocean">>, <<"exoscale">>,
    <<"generic">>, <<"google">>, <<"hyperv">>, <<"none">>, <<"openstack">>,
    <<"rackspace">>, <<"softlayer">>, <<"virtualbox">>, <<"vmwarefusion">>,
    <<"vmwarevcloudair">>, <<"vmwarevsphere">>, <<"pod">>, <<"noop">> }

\* os.Args[0] of the supervising process
Args0 == <<"/", "bin", "/", "docker-machine">>

\* The one directory listed in PATH.
PathDir == <<"/", "bin", "/">>

\* The index of the last separator of p, 0 when it has none.
LastSep(p) ==
  LET seps == { i \in 1..Len(p) : p[i] = "/" }
  IN  IF seps = {} THEN 0 ELSE CHOOSE i \in seps : \A j \in seps : j <= i

\* filepath.Split(p): the directory with its trailing separator, the file
Split(p) ==
  [dir |-> SubSeq(p, 1, LastSep(p)), file |-> SubSeq(p, LastSep(p) + 1, Len(p))]

\* driverPath(driverName)
driverPath(driverName, isDockerMachine) ==
  IF driverName \in CoreDrivers
    THEN IF isDockerMachine THEN Args0 ELSE <<"rancher-machine">>
    ELSE <<"docker-machine-driver-">> \o driverName

\* exec.LookPath(file) over the executables in installed: a file with a
\* separator is looked up as it is, a bare one in the PATH directory.
LookPath(file, installed) ==
  LET candidate == IF LastSep(file) # 0 THEN file ELSE PathDir \o file
  IN  IF candidate \in installed
        THEN [path |-> candidate, err |-> "nil"]
        ELSE [path |-> <<>>, err |-> "not_found"]

\* Mutant: the error is built from the requested string, not its file part.
NewPlugin_Mut(driverName, isDockerMachine, installed) ==
  LET sp == Split(driverName)
      path == IF sp.dir = <<>>
                THEN driverPath(driverName, isDockerMachine)
                ELSE driverName
      found == LookPath(path, installed)
  IN  IF found.err # "nil"
        THEN [plugin |-> <<>>,
              err |-> << [driverName |-> driverName, driverPath |-> path] >>]
        ELSE [plugin |-> << [DriverName |-> sp.file,
                             binaryPath |-> found.path] >>,
              err |-> <<>>]

\* NewPlugin(driverName): the Plugin (its Executor's fields) and the error;
\* a nil pointer or nil error is <<>>, a value v is << v >>
NewPlugin(driverName, isDockerMachine, installed) ==
  LET sp == Split(driverName)
      path == IF sp.dir = <<>>
                THEN driverPath(driverName, isDockerMachine)
                ELSE driverName
      found == LookPath(path, installed)
  IN  IF found.err # "nil"
        THEN [plugin |-> <<>>,
              err |-> << [driverName |-> sp.file, driverPath |-> path] >>]
        ELSE [plugin |-> << [DriverName |-> sp.file,
                             binaryPath |-> found.path] >>,
              err |-> <<>>]

\* The driver names a caller may request: core, non-core, with a
\* directory part, with a trailing separator.
RequestedNames ==
  { <<"virtualbox">>, <<"foo">>, <<"/", "opt", "/", "foo">>,
    <<"/", "opt", "/", "virtualbox">>, <<"opt", "/">> }

\* The executables that may or may not be installed.
Executables ==
  { PathDir \o <<"rancher-machine">>, Args0,
    PathDir \o <<"docker-machine-driver-", "foo">>,
    <<"/", "opt", "/", "foo">>, <<"/", "opt", "/", "virtualbox">> }

\* The construction behind the Plugin that Serve runs.
Constructed ==
  [pc |-> "done", driverName |-> DriverNameOf(1), isDockerMachine |-> FALSE,
   installed |-> { PathDir \o <<"docker-machine-driver-">> \o DriverNameOf(1) },
   result |-> NewPlugin(DriverNameOf(1), FALSE,
                        { PathDir \o <<"docker-machine-driver-">> \o DriverNameOf(1) })]

\* os.Setenv(PluginEnvKey, PluginEnvVal)
SetToken(environ) == [environ EXCEPT !.token = PluginEnvVal]

\* os.Setenv(PluginEnvDriverName, lbe.DriverName)
SetDriver(environ, name) == [environ EXCEPT !.driver = name]

\* ------------------------------------------------------------------ state
VARIABLES
  MachineName,   \* Plugin.MachineName
  Addr,          \* Plugin.Addr
  addrCh,        \* Plugin.addrCh: the buffered values (capacity 1)
  addrChClosed,  \* Plugin.addrCh has been closed
  timeout,       \* Plugin.timeout
  servePc,       \* where Serve (execServer) is
  serveRet,      \* what Serve returned
  hsAddr,        \* execServer's local addr
  child,         \* the child process: "none", "running", "exited"
  exitStatus,    \* how the child ended: "none", "ok", "fail"
  cred,          \* cmd.SysProcAttr.Credential: "inherit" or "override"
  env,           \* the supervisor's environment: PluginUID, PluginGID,
                 \* PluginEnvKey (token), PluginEnvDriverName (driver)
  starts,        \* per Executor, its Start call taken statement by statement
  newPlugin,     \* the NewPlugin call: its inputs and what it returned
  script,        \* per stream, the lines the child prints in its life
  written,       \* per stream, how many lines the child has printed
  consumed,      \* per stream, how many lines the scanner has handed out
  pipesClosed,   \* cmd.Wait has closed the parent's ends of the pipes
  relayPc,       \* per stream, where the stream goroutine is
  relayLine,     \* per stream, the line the goroutine is handing over
  logs,          \* the records the logging sink received, in order
  addrPc,        \* per caller, where its Address call is
  timerFired,    \* per caller, time.After(lbp.timeout) has fired
  addrHist,      \* the results of the Address calls that returned, in order
  closePc,       \* where the Plugin.Close caller is
  closeCalls,    \* Plugin.Close calls made
  closeReturns,  \* Plugin.Close calls that returned
  panicked,      \* the Go runtime panicked (the process is gone)
  hsResult,      \* what the handshake Scan saw: "none", "line", "eof", "err"
  sent,          \* the values sent on addrCh, in order
  addrRecvs,     \* receive operations Address completed on addrCh
  addrCloses     \* close(lbp.addrCh) statements executed

vars ==
  << MachineName, Addr, addrCh, addrChClosed, timeout, servePc, serveRet,
     hsAddr, child, exitStatus, cred, script, written, consumed, pipesClosed,
     relayPc, relayLine, logs, addrPc, timerFired, addrHist, closePc,
     closeCalls, closeReturns, panicked, hsResult, sent, addrRecvs,
     addrCloses, env, starts, newPlugin >>

pluginVars == << MachineName, Addr, addrCh, addrChClosed, timeout >>
serveVars == << servePc, serveRet, hsAddr >>
childVars == << child, exitStatus, cred, env, starts, newPlugin, script,
               written >>
relayVars == << relayPc, relayLine >>
addressVars == << addrPc, timerFired, addrHist >>
closeVars == << closePc, closeCalls, closeReturns >>
ghostVars == << hsResult, sent, addrRecvs, addrCloses >>

\* An Executor on which Start has not been called.  overlap records that
\* another Executor's Start was in progress at some time during this one's.
NotStarted ==
  [pc |-> "idle", err |-> "none", cred |-> "inherit", spawned |-> FALSE,
   childToken |-> "", childDriver |-> <<>>, overlap |-> FALSE]

\* The lines of stream s still in the pipe (or in the scanner's buffer).
Pending(s) == written[s] - consumed[s]

\* The stdout scripts: nothing at all, or a first line and some log lines.
OutScripts ==
  { <<>> } \cup { <<a>> \o LogScript(n) : a \in AddrLines, n \in 0..MaxOut }

ErrScripts == { LogScript(n) : n \in 0..MaxErr }

\* NewPlugin's result, before Serve: both channels empty and open.  The
\* identity variables are not set in the supervisor's environment.
Init ==
  /\ env = [uid |-> <<>>, gid |-> <<>>, token |-> "", driver |-> <<>>]
  /\ starts = [e \in Executors |-> NotStarted]
  /\ newPlugin = Constructed
  /\ MachineName \in MachineNames
  /\ Addr = <<>>
  /\ addrCh = <<>>
  /\ addrChClosed = FALSE
  /\ timeout = 0
  /\ servePc = "idle"
  /\ serveRet = "none"
  /\ hsAddr = <<>>
  /\ child = "none"
  /\ exitStatus = "none"
  /\ cred = "inherit"
  /\ script \in [out : OutScripts, err : ErrScripts]
  /\ written = [s \in Streams |-> 0]
  /\ consumed = [s \in Streams |-> 0]
  /\ pipesClosed = FALSE
  /\ relayPc = [s \in Streams |-> "none"]
  /\ relayLine = [s \in Streams |-> <<>>]
  /\ logs = <<>>
  /\ addrPc = [c \in Callers |-> "idle"]
  /\ timerFired = [c \in Callers |-> FALSE]
  /\ addrHist = <<>>
  /\ closePc = "idle"
  /\ closeCalls = 0
  /\ closeReturns = 0
  /\ panicked = FALSE
  /\ hsResult = "none"
  /\ sent = <<>>
  /\ addrRecvs = 0
  /\ addrCloses = 0

\* ------------------------------------------------------------------ Serve
\* The caller invokes Plugin.Serve.
ServeCall ==
  /\ ~panicked
  /\ servePc = "idle"
  /\ servePc' = "start"
  /\ UNCHANGED << pluginVars, serveRet, hsAddr, childVars, consumed,
                  pipesClosed, relayVars, logs, addressVars, closeVars,
                  panicked, ghostVars >>

\* Mutant: the "return err" after a failed Start is missing.
ExecStart_Mut ==
  /\ ~panicked
  /\ servePc = "start"
  /\ \E pipeOk \in BOOLEAN, startOk \in BOOLEAN :
       LET res == StartResult(env.uid, env.gid, pipeOk, startOk)
       IN  /\ servePc' = "handshake"
           /\ IF res.err = "nil"
                THEN /\ child' = "running"
                     /\ cred' = res.cred
                     /\ UNCHANGED serveRet
                ELSE /\ serveRet' = res.err
                     /\ UNCHANGED << child, cred >>
           /\ env' = IF res.err \in {"nil", "start"}
                       THEN SetDriver(SetToken(env), DriverNameOf(1))
                       ELSE env
  /\ UNCHANGED << pluginVars, hsAddr, exitStatus, starts, newPlugin, script,
                  written,
                  consumed, pipesClosed, relayVars, logs, addressVars,
                  closeVars, panicked, ghostVars >>

\* outScanner, errScanner, err := lbp.Executor.Start(); on err, return err.
ExecStart ==
  /\ ~panicked
  /\ servePc = "start"
  /\ \E pipeOk \in BOOLEAN, startOk \in BOOLEAN :
       LET res == StartResult(env.uid, env.gid, pipeOk, startOk)
       IN  /\ IF res.err = "nil"
                THEN /\ child' = "running"
                     /\ cred' = res.cred
                     /\ servePc' = "handshake"
                     /\ UNCHANGED serveRet
                ELSE /\ servePc' = "done"
                     /\ serveRet' = res.err
                     /\ UNCHANGED << child, cred >>
           /\ env' = IF res.err \in {"nil", "start"}
                       THEN SetDriver(SetToken(env), DriverNameOf(1))
                       ELSE env
  /\ UNCHANGED << pluginVars, hsAddr, exitStatus, starts, newPlugin, script,
                  written,
                  consumed, pipesClosed, relayVars, logs, addressVars,
                  closeVars, panicked, ghostVars >>

\* Mutant: the stream goroutines are attached before the handshake read.
HandshakeScan_Mut ==
  /\ ~panicked
  /\ servePc = "handshake"
  /\ (Pending("out") > 0 \/ child = "exited")
  /\ IF Pending("out") > 0
       THEN /\ hsAddr' = script.out[consumed.out + 1]
            /\ consumed' = [consumed EXCEPT !.out = @ + 1]
            /\ hsResult' = "line"
       ELSE /\ hsAddr' = <<>>
            /\ hsResult' = "eof"
            /\ UNCHANGED consumed
  /\ servePc' = "publish"
  /\ relayPc' = [s \in Streams |-> "scan"]
  /\ UNCHANGED << pluginVars, serveRet, childVars, pipesClosed, relayLine,
                  logs, addressVars, closeVars, panicked, sent, addrRecvs,
                  addrCloses >>

\* outScanner.Scan(); addr := outScanner.Text(); Err() is nil: a line was
\* read, or the pipe reached EOF (Scan is false, Text is "", Err is nil).
HandshakeScan ==
  /\ ~panicked
  /\ servePc = "handshake"
  /\ (Pending("out") > 0 \/ child = "exited")
  /\ IF Pending("out") > 0
       THEN /\ hsAddr' = script.out[consumed.out + 1]
            /\ consumed' = [consumed EXCEPT !.out = @ + 1]
            /\ hsResult' = "line"
       ELSE /\ hsAddr' = <<>>
            /\ hsResult' = "eof"
            /\ UNCHANGED consumed
  /\ servePc' = "publish"
  /\ UNCHANGED << pluginVars, serveRet, childVars, pipesClosed, relayVars,
                  logs, addressVars, closeVars, panicked, sent, addrRecvs,
                  addrCloses >>

\* outScanner.Scan() fails with a read error (not EOF): Err() is not nil,
\* execServer returns "Reading plugin address failed".
HandshakeScanErr ==
  /\ ~panicked
  /\ servePc = "handshake"
  /\ hsResult' = "err"
  /\ servePc' = "done"
  /\ serveRet' = "handshake_err"
  /\ UNCHANGED << pluginVars, hsAddr, childVars, consumed, pipesClosed,
                  relayVars, logs, addressVars, closeVars, panicked, sent,
                  addrRecvs, addrCloses >>

\* lbp.addrCh <- strings.TrimSpace(addr); then the two AttachStream calls,
\* each starting a stream goroutine.  A send on a closed channel panics.
ServePublish ==
  /\ ~panicked
  /\ servePc = "publish"
  /\ IF addrChClosed
       THEN /\ panicked' = TRUE
            /\ UNCHANGED << addrCh, sent, servePc, relayPc >>
       ELSE /\ Len(addrCh) < 1
            /\ addrCh' = Append(addrCh, PublishedAddr(hsAddr))
            /\ sent' = Append(sent, PublishedAddr(hsAddr))
            /\ relayPc' = [s \in Streams |-> "scan"]
            /\ servePc' = "loop"
            /\ UNCHANGED panicked
  /\ UNCHANGED << MachineName, Addr, addrChClosed, timeout, serveRet, hsAddr,
                  childVars, consumed, pipesClosed, relayLine, logs,
                  addressVars, closeVars, hsResult, addrRecvs, addrCloses >>

\* case out := <-stdOutCh: log.Infof(pluginOut, lbp.MachineName, out)
LoopRecvOut ==
  /\ ~panicked
  /\ servePc = "loop"
  /\ relayPc.out = "send"
  /\ logs' = Append(logs, InfoRecord(MachineName, relayLine.out))
  /\ relayPc' = [relayPc EXCEPT !.out = "scan"]
  /\ UNCHANGED << pluginVars, serveVars, childVars, consumed, pipesClosed,
                  relayLine, addressVars, closeVars, panicked, ghostVars >>

\* case err := <-stdErrCh: log.Debugf(pluginErr, lbp.MachineName, err)
LoopRecvErr ==
  /\ ~panicked
  /\ servePc = "loop"
  /\ relayPc.err = "send"
  /\ logs' = Append(logs, DebugRecord(MachineName, relayLine.err))
  /\ relayPc' = [relayPc EXCEPT !.err = "scan"]
  /\ UNCHANGED << pluginVars, serveVars, childVars, consumed, pipesClosed,
                  relayLine, addressVars, closeVars, panicked, ghostVars >>

\* Mutant: the stop is acknowledged only after Executor.Close has returned,
\* so Plugin.Close waits for the child and for Serve.
LoopRecvStop_Mut ==
  /\ ~panicked
  /\ servePc = "loop"
  /\ closePc = "send"
  /\ child = "exited"
  /\ pipesClosed' = TRUE
  /\ serveRet' = IF exitStatus = "ok" THEN "nil" ELSE "wait_err"
  /\ servePc' = "done"
  /\ closePc' = "idle"
  /\ closeReturns' = closeReturns + 1
  /\ UNCHANGED << pluginVars, hsAddr, childVars, consumed, relayVars, logs,
                  addressVars, closeCalls, panicked, ghostVars >>

\* case <-lbp.stopCh: the rendezvous with a blocked Plugin.Close, which
\* returns nil; execServer goes on to call lbp.Executor.Close().
LoopRecvStop ==
  /\ ~panicked
  /\ servePc = "loop"
  /\ closePc = "send"
  /\ servePc' = "closing"
  /\ closePc' = "idle"
  /\ closeReturns' = closeReturns + 1
  /\ UNCHANGED << pluginVars, serveRet, hsAddr, childVars, consumed,
                  pipesClosed, relayVars, logs, addressVars, closeCalls,
                  panicked, ghostVars >>

\* Mutant: the error of lbp.Executor.Close() is dropped.
ExecClose_Mut ==
  /\ ~panicked
  /\ servePc = "closing"
  /\ child = "exited"
  /\ pipesClosed' = TRUE
  /\ serveRet' = "nil"
  /\ servePc' = "done"
  /\ UNCHANGED << pluginVars, hsAddr, childVars, consumed, relayVars, logs,
                  addressVars, closeVars, panicked, ghostVars >>

\* Executor.Close: lbe.cmd.Wait() returns once the child has exited, closes
\* the parent's ends of the pipes, and reports a failed exit as an error.
ExecClose ==
  /\ ~panicked
  /\ servePc = "closing"
  /\ child = "exited"
  /\ pipesClosed' = TRUE
  /\ serveRet' = IF exitStatus = "ok" THEN "nil" ELSE "wait_err"
  /\ servePc' = "done"
  /\ UNCHANGED << pluginVars, hsAddr, childVars, consumed, relayVars, logs,
                  addressVars, closeVars, panicked, ghostVars >>

\* ----------------------------------------------------------------- stream
\* for scanner.Scan() { line := scanner.Text(); ... }: the goroutine takes
\* the next line and blocks on streamOutCh <- strings.Trim(line, "\n").
RelayScanLine(s) ==
  /\ ~panicked
  /\ relayPc[s] = "scan"
  /\ Pending(s) > 0
  /\ relayLine' = [relayLine EXCEPT ![s] = StreamText(script[s][consumed[s] + 1])]
  /\ consumed' = [consumed EXCEPT ![s] = @ + 1]
  /\ relayPc' = [relayPc EXCEPT ![s] = "send"]
  /\ UNCHANGED << pluginVars, serveVars, childVars, pipesClosed, logs,
                  addressVars, closeVars, panicked, ghostVars >>

\* Mutant: at the end of its source the goroutine hands over one more,
\* empty, line instead of returning.
RelayScanEnd_Mut(s) ==
  /\ ~panicked
  /\ relayPc[s] = "scan"
  /\ (Pending(s) = 0 /\ child = "exited") \/ pipesClosed
  /\ relayPc' = [relayPc EXCEPT ![s] = "send"]
  /\ relayLine' = [relayLine EXCEPT ![s] = <<>>]
  /\ UNCHANGED << pluginVars, serveVars, childVars, consumed, pipesClosed,
                  logs, addressVars, closeVars, panicked, ghostVars >>

\* scanner.Scan() is false: the child's end of the pipe is closed and the
\* pipe is drained, or cmd.Wait closed the parent's end under the reader
\* (whatever was still in the OS pipe is lost).  The goroutine returns.
RelayScanEnd(s) ==
  /\ ~panicked
  /\ relayPc[s] = "scan"
  /\ (Pending(s) = 0 /\ child = "exited") \/ pipesClosed
  /\ relayPc' = [relayPc EXCEPT ![s] = "done"]
  /\ UNCHANGED << pluginVars, serveVars, childVars, consumed, pipesClosed,
                  relayLine, logs, addressVars, closeVars, panicked,
                  ghostVars >>

\* ------------------------------------------------------------------ child
\* The child prints its next line on stream s; the write blocks while the
\* pipe is full.
ChildWrite(s) ==
  /\ ~panicked
  /\ child = "running"
  /\ written[s] < Len(script[s])
  /\ Pending(s) < PipeCap
  /\ written' = [written EXCEPT ![s] = @ + 1]
  /\ UNCHANGED << pluginVars, serveVars, child, exitStatus, cred, env, starts, newPlugin,
                  script,
                  consumed, pipesClosed, relayVars, logs, addressVars,
                  closeVars, panicked, ghostVars >>

\* The child has printed everything and exits, with status 0 or not.
ChildFinish ==
  /\ ~panicked
  /\ child = "running"
  /\ \A s \in Streams : written[s] = Len(script[s])
  /\ child' = "exited"
  /\ exitStatus' \in {"ok", "fail"}
  /\ UNCHANGED << pluginVars, serveVars, cred, env, starts, newPlugin, script,
                  written,
                  consumed,
                  pipesClosed, relayVars, logs, addressVars, closeVars,
                  panicked, ghostVars >>

\* The child is killed (or crashes) wherever it is.
ChildKill ==
  /\ ~panicked
  /\ child = "running"
  /\ child' = "exited"
  /\ exitStatus' = "fail"
  /\ UNCHANGED << pluginVars, serveVars, cred, env, starts, newPlugin, script,
                  written,
                  consumed,
                  pipesClosed, relayVars, logs, addressVars, closeVars,
                  panicked, ghostVars >>

\* ---------------------------------------------------------------- Address
\* The result of one Address call.
AddrOk(v) == [val |-> v, err |-> "nil"]
AddrTimedOut == [val |-> <<>>, err |-> "timeout"]

\* lbp.timeout after "if lbp.timeout == 0 { lbp.timeout = defaultTimeout }"
EffectiveTimeout(t) == IF t = 0 THEN defaultTimeout ELSE t

\* Address is entered: with lbp.Addr cached it returns at once; otherwise
\* it fixes the timeout and blocks in the select.
AddressCall(c) ==
  /\ ~panicked
  /\ addrPc[c] = "idle"
  /\ Len(addrHist) < MaxAddrCalls
  /\ IF Addr # <<>>
       THEN /\ addrHist' = Append(addrHist, AddrOk(Addr))
            /\ UNCHANGED << addrPc, timerFired, timeout >>
       ELSE /\ timeout' = EffectiveTimeout(timeout)
            /\ addrPc' = [addrPc EXCEPT ![c] = "select"]
            /\ timerFired' = [timerFired EXCEPT ![c] = FALSE]
            /\ UNCHANGED addrHist
  /\ UNCHANGED << MachineName, Addr, addrCh, addrChClosed, serveVars,
                  childVars, consumed, pipesClosed, relayVars, logs,
                  closeVars, panicked, ghostVars >>

\* case lbp.Addr = <-lbp.addrCh: close(lbp.addrCh); return lbp.Addr, nil.
\* A closed channel yields the zero value at once; closing it again panics.
AddressRecv(c) ==
  /\ ~panicked
  /\ addrPc[c] = "select"
  /\ addrCh # <<>> \/ addrChClosed
  /\ LET v == IF addrCh # <<>> THEN Head(addrCh) ELSE <<>>
     IN  /\ Addr' = v
         /\ addrCh' = IF addrCh # <<>> THEN Tail(addrCh) ELSE addrCh
         /\ addrRecvs' = addrRecvs + 1
         /\ addrCloses' = addrCloses + 1
         /\ IF addrChClosed
              THEN /\ panicked' = TRUE
                   /\ UNCHANGED << addrChClosed, addrPc, addrHist >>
              ELSE /\ addrChClosed' = TRUE
                   /\ addrPc' = [addrPc EXCEPT ![c] = "idle"]
                   /\ addrHist' = Append(addrHist, AddrOk(v))
                   /\ UNCHANGED panicked
  /\ UNCHANGED << MachineName, timeout, serveVars, childVars, consumed,
                  pipesClosed, relayVars, logs, timerFired, closeVars,
                  hsResult, sent >>

\* The timer of time.After(lbp.timeout) fires: time passes only while the
\* caller is blocked, with nothing to receive.
TimerFire(c) ==
  /\ ~panicked
  /\ addrPc[c] = "select"
  /\ ~timerFired[c]
  /\ addrCh = <<>>
  /\ ~addrChClosed
  /\ timerFired' = [timerFired EXCEPT ![c] = TRUE]
  /\ UNCHANGED << pluginVars, serveVars, childVars, consumed, pipesClosed,
                  relayVars, logs, addrPc, addrHist, closeVars, panicked,
                  ghostVars >>

\* Mutant: the timeout branch closes addrCh before it returns.
AddressTimeout_Mut(c) ==
  /\ ~panicked
  /\ addrPc[c] = "select"
  /\ timerFired[c]
  /\ addrPc' = [addrPc EXCEPT ![c] = "idle"]
  /\ addrHist' = Append(addrHist, AddrTimedOut)
  /\ addrChClosed' = TRUE
  /\ UNCHANGED << MachineName, Addr, addrCh, timeout, serveVars, childVars,
                  consumed, pipesClosed, relayVars, logs, timerFired,
                  closeVars, panicked, ghostVars >>

\* case <-time.After(lbp.timeout): return "", "Failed to dial ...".
AddressTimeout(c) ==
  /\ ~panicked
  /\ addrPc[c] = "select"
  /\ timerFired[c]
  /\ addrPc' = [addrPc EXCEPT ![c] = "idle"]
  /\ addrHist' = Append(addrHist, AddrTimedOut)
  /\ UNCHANGED << pluginVars, serveVars, childVars, consumed, pipesClosed,
                  relayVars, logs, timerFired, closeVars, panicked,
                  ghostVars >>

\* ------------------------------------------------------------------ Close
\* Mutant: stopCh is buffered, so the send (and Close) completes at once.
CloseCall_Mut ==
  /\ ~panicked
  /\ closePc = "idle"
  /\ closeCalls < MaxCloseCalls
  /\ closeCalls' = closeCalls + 1
  /\ closeReturns' = closeReturns + 1
  /\ UNCHANGED << pluginVars, serveVars, childVars, consumed, pipesClosed,
                  relayVars, logs, addressVars, closePc, panicked,
                  ghostVars >>

\* Plugin.Close is entered and blocks on lbp.stopCh <- true.
CloseCall ==
  /\ ~panicked
  /\ closePc = "idle"
  /\ closeCalls < MaxCloseCalls
  /\ closePc' = "send"
  /\ closeCalls' = closeCalls + 1
  /\ UNCHANGED << pluginVars, serveVars, childVars, consumed, pipesClosed,
                  relayVars, logs, addressVars, closeReturns, panicked,
                  ghostVars >>

\* ------------------------------------------------------------------- spec
Next ==
  \/ ServeCall
  \/ ExecStart
  \/ HandshakeScan
  \/ HandshakeScanErr
  \/ ServePublish
  \/ LoopRecvOut
  \/ LoopRecvErr
  \/ LoopRecvStop
  \/ ExecClose
  \/ \E s \in Streams : RelayScanLine(s)
  \/ \E s \in Streams : RelayScanEnd(s)
  \/ \E s \in Streams : ChildWrite(s)
  \/ ChildFinish
  \/ ChildKill
  \/ \E c \in Callers : AddressCall(c)
  \/ \E c \in Callers : AddressRecv(c)
  \/ \E c \in Callers : TimerFire(c)
  \/ \E c \in Callers : AddressTimeout(c)
  \/ CloseCall

Spec == Init /\ [][Next]_vars

\* What the Go scheduler and the OS guarantee: a goroutine that can take its
\* next step takes it, a select with a ready case proceeds, a timer fires,
\* and a child that is not blocked prints its next line or exits.  Nothing
\* makes a caller call, a read fail, or anybody kill the child.
Fairness ==
  /\ WF_vars(ExecStart)
  /\ WF_vars(HandshakeScan)
  /\ WF_vars(ServePublish)
  /\ WF_vars(LoopRecvOut)
  /\ WF_vars(LoopRecvErr)
  /\ WF_vars(LoopRecvStop)
  /\ WF_vars(ExecClose)
  /\ \A s \in Streams : WF_vars(RelayScanLine(s))
  /\ \A s \in Streams : WF_vars(RelayScanEnd(s))
  /\ \A s \in Streams : WF_vars(ChildWrite(s))
  /\ WF_vars(ChildFinish)
  /\ \A c \in Callers : WF_vars(AddressRecv(c))
  /\ \A c \in Callers : WF_vars(TimerFire(c))
  /\ \A c \in Callers : WF_vars(AddressTimeout(c))

LiveSpec == Spec /\ Fairness

\* ------------------------------------------------ concurrent Address calls
\* Two goroutines that call Address on the same Plugin.
ConcCallers == {1, 2}

\* As Init, with two Address callers and a child that prints its address
\* line, one more stdout line and one stderr line.
InitConc ==
  /\ env = [uid |-> <<>>, gid |-> <<>>, token |-> "", driver |-> <<>>]
  /\ starts = [e \in Executors |-> NotStarted]
  /\ newPlugin = Constructed
  /\ MachineName \in MachineNames
  /\ Addr = <<>>
  /\ addrCh = <<>>
  /\ addrChClosed = FALSE
  /\ timeout = 0
  /\ servePc = "idle"
  /\ serveRet = "none"
  /\ hsAddr = <<>>
  /\ child = "none"
  /\ exitStatus = "none"
  /\ cred = "inherit"
  /\ script \in [out : { <<a>> \o LogScript(1) : a \in AddrLines },
                  err : { LogScript(1) }]
  /\ written = [s \in Streams |-> 0]
  /\ consumed = [s \in Streams |-> 0]
  /\ pipesClosed = FALSE
  /\ relayPc = [s \in Streams |-> "none"]
  /\ relayLine = [s \in Streams |-> <<>>]
  /\ logs = <<>>
  /\ addrPc = [c \in ConcCallers |-> "idle"]
  /\ timerFired = [c \in ConcCallers |-> FALSE]
  /\ addrHist = <<>>
  /\ closePc = "idle"
  /\ closeCalls = 0
  /\ closeReturns = 0
  /\ panicked = FALSE
  /\ hsResult = "none"
  /\ sent = <<>>
  /\ addrRecvs = 0
  /\ addrCloses = 0

NextConc ==
  \/ ServeCall
  \/ ExecStart
  \/ HandshakeScan
  \/ HandshakeScanErr
  \/ ServePublish
  \/ LoopRecvOut
  \/ LoopRecvErr
  \/ LoopRecvStop
  \/ ExecClose
  \/ \E s \in Streams : RelayScanLine(s)
  \/ \E s \in Streams : RelayScanEnd(s)
  \/ \E s \in Streams : ChildWrite(s)
  \/ ChildFinish
  \/ ChildKill
  \/ \E c \in ConcCallers : AddressCall(c)
  \/ \E c \in ConcCallers : AddressRecv(c)
  \/ \E c \in ConcCallers : TimerFire(c)
  \/ \E c \in ConcCallers : AddressTimeout(c)
  \/ CloseCall

ConcSpec == InitConc /\ [][NextConc]_vars

\* --------------------------------------------- Executor.Start, by statement
\* Everything but the environment and the Start calls.
startFrame ==
  << pluginVars, serveVars, child, exitStatus, cred, script, written,
     consumed, pipesClosed, relayVars, logs, addressVars, closeVars,
     panicked, ghostVars, newPlugin >>

\* A Start call that is between its first statement and its return.
InStart(e) == starts[e].pc \in {"token", "driver", "spawn"}

\* Start up to the two scanners: the identity variables are read and
\* parsed, the pipes are made; any error returns at once.
StartBegin(e) ==
  /\ starts[e].pc = "idle"
  /\ \E pipeOk \in BOOLEAN :
       LET res == StartResult(env.uid, env.gid, pipeOk, TRUE)
           others == { f \in Executors \ {e} : InStart(f) }
       IN  starts' =
             [f \in Executors |->
                IF f = e
                  THEN IF res.err = "nil"
                         THEN [starts[e] EXCEPT !.pc = "token",
                                                !.cred = res.cred,
                                                !.overlap = others # {}]
                         ELSE [starts[e] EXCEPT !.pc = "done",
                                                !.err = res.err]
                  ELSE IF res.err = "nil" /\ f \in others
                         THEN [starts[f] EXCEPT !.overlap = TRUE]
                         ELSE starts[f]]
  /\ UNCHANGED << env, startFrame >>

\* os.Setenv(PluginEnvKey, PluginEnvVal)
StartSetToken(e) ==
  /\ starts[e].pc = "token"
  /\ env' = SetToken(env)
  /\ starts' = [starts EXCEPT ![e].pc = "driver"]
  /\ UNCHANGED startFrame

\* Mutant: Start does not export its driver name.
StartSetDriver_Mut(e) ==
  /\ starts[e].pc = "driver"
  /\ env' = env
  /\ starts' = [starts EXCEPT ![e].pc = "spawn"]
  /\ UNCHANGED startFrame

\* os.Setenv(PluginEnvDriverName, lbe.DriverName)
StartSetDriver(e) ==
  /\ starts[e].pc = "driver"
  /\ env' = SetDriver(env, DriverNameOf(e))
  /\ starts' = [starts EXCEPT ![e].pc = "spawn"]
  /\ UNCHANGED startFrame

\* lbe.cmd.Start(): cmd.Env is nil, so the child gets the environment the
\* process has at this moment, and the credential set on cmd.
StartSpawn(e) ==
  /\ starts[e].pc = "spawn"
  /\ \E startOk \in BOOLEAN :
       starts' =
         [starts EXCEPT ![e] =
            IF startOk
              THEN [@ EXCEPT !.pc = "done", !.err = "nil", !.spawned = TRUE,
                             !.childToken = env.token,
                             !.childDriver = env.driver]
              ELSE [@ EXCEPT !.pc = "done", !.err = "start"]]
  /\ UNCHANGED << env, startFrame >>

\* Three Executors of one process, no Plugin served; the identity
\* variables are whatever the process was given.
InitStart ==
  /\ env \in [uid : EnvVals, gid : EnvVals, token : {""}, driver : {<<>>}]
  /\ starts = [e \in Executors |-> NotStarted]
  /\ newPlugin = Constructed
  /\ MachineName \in MachineNames
  /\ Addr = <<>>
  /\ addrCh = <<>>
  /\ addrChClosed = FALSE
  /\ timeout = 0
  /\ servePc = "idle"
  /\ serveRet = "none"
  /\ hsAddr = <<>>
  /\ child = "none"
  /\ exitStatus = "none"
  /\ cred = "inherit"
  /\ script = [out |-> <<>>, err |-> <<>>]
  /\ written = [s \in Streams |-> 0]
  /\ consumed = [s \in Streams |-> 0]
  /\ pipesClosed = FALSE
  /\ relayPc = [s \in Streams |-> "none"]
  /\ relayLine = [s \in Streams |-> <<>>]
  /\ logs = <<>>
  /\ addrPc = [c \in Callers |-> "idle"]
  /\ timerFired = [c \in Callers |-> FALSE]
  /\ addrHist = <<>>
  /\ closePc = "idle"
  /\ closeCalls = 0
  /\ closeReturns = 0
  /\ panicked = FALSE
  /\ hsResult = "none"
  /\ sent = <<>>
  /\ addrRecvs = 0
  /\ addrCloses = 0

NextStart ==
  \/ \E e \in Executors : StartBegin(e)
  \/ \E e \in Executors : StartSetToken(e)
  \/ \E e \in Executors : StartSetDriver(e)
  \/ \E e \in Executors : StartSpawn(e)

StartSpec == InitStart /\ [][NextStart]_vars

\* ------------------------------------------------------- NewPlugin, called
\* plugin, err := NewPlugin(driverName)
NewPluginCall ==
  /\ newPlugin.pc = "idle"
  /\ newPlugin' =
       [newPlugin EXCEPT
          !.pc = "done",
          !.result = NewPlugin(newPlugin.driverName, newPlugin.isDockerMachine,
                               newPlugin.installed)]
  /\ UNCHANGED << pluginVars, serveVars, child, exitStatus, cred, env, starts,
                  script, written, consumed, pipesClosed, relayVars, logs,
                  addressVars, closeVars, panicked, ghostVars >>

\* Before NewPlugin is called: any requested name, either value of
\* CurrentBinaryIsDockerMachine, any set of installed executables.
InitNewPlugin ==
  /\ newPlugin \in [pc : {"idle"}, driverName : RequestedNames,
                     isDockerMachine : BOOLEAN,
                     installed : SUBSET Executables,
                     result : {[plugin |-> <<>>, err |-> <<>>]}]
  /\ env = [uid |-> <<>>, gid |-> <<>>, token |-> "", driver |-> <<>>]
  /\ starts = [e \in Executors |-> NotStarted]
  /\ MachineName \in MachineNames
  /\ Addr = <<>>
  /\ addrCh = <<>>
  /\ addrChClosed = FALSE
  /\ timeout = 0
  /\ servePc = "idle"
  /\ serveRet = "none"
  /\ hsAddr = <<>>
  /\ child = "none"
  /\ exitStatus = "none"
  /\ cred = "inherit"
  /\ script = [out |-> <<>>, err |-> <<>>]
  /\ written = [s \in Streams |-> 0]
  /\ consumed = [s \in Streams |-> 0]
  /\ pipesClosed = FALSE
  /\ relayPc = [s \in Streams |-> "none"]
  /\ relayLine = [s \in Streams |-> <<>>]
  /\ logs = <<>>
  /\ addrPc = [c \in Callers |-> "idle"]
  /\ timerFired = [c \in Callers |-> FALSE]
  /\ addrHist = <<>>
  /\ closePc = "idle"
  /\ closeCalls = 0
  /\ closeReturns = 0
  /\ panicked = FALSE
  /\ hsResult = "none"
  /\ sent = <<>>
  /\ addrRecvs = 0
  /\ addrCloses = 0

NextNewPlugin == NewPluginCall

NewPluginSpec == InitNewPlugin /\ [][NextNewPlugin]_vars

\* ----------------------------------------------------------------- claims
\* The Address results that were successes (err is nil).
Successes == { i \in 1..Len(addrHist) : addrHist[i].err = "nil" }

\* The first line the child's script prints, when it reached the handshake.
FirstLine == script.out[1]

\* C1: when Start succeeded and the handshake Scan met the end of stdout or
\* a read error before any line, Serve returns the handshake error, nothing
\* is ever sent on addrCh and the event loop is never entered.
C1_HandshakeFailureOrig ==
  hsResult \in {"eof", "err"} =>
    /\ sent = <<>>
    /\ servePc \notin {"loop", "closing"}
    /\ \A s \in Streams : relayPc[s] = "none"
    /\ servePc = "done" => serveRet = "handshake_err"

\* C2: whatever first line the handshake read and published, once an Address
\* call has returned a value with no error, every later call returns that
\* value with no error, and addrCh is neither received from nor closed a
\* second time.
C2_AddressCachedOrig ==
  hsResult = "line" /\ Successes # {} =>
    /\ \A i \in Successes : \A j \in 1..Len(addrHist) :
         j > i => addrHist[j] = addrHist[i]
    /\ addrRecvs <= 1
    /\ addrCloses <= 1
    /\ ~panicked

\* C3: addrCh is sent to at most once, closed at most once, closed only by
\* the Address call that received the published value, and never sent to or
\* closed once it is closed (stated for the runs whose handshake read a
\* first line).
C3_AddrChannelOrig ==
  hsResult = "line" =>
    /\ Len(sent) <= 1
    /\ addrCloses <= 1
    /\ addrCloses <= Len(sent)
    /\ addrRecvs = addrCloses
    /\ addrRecvs >= 1 => Len(sent) = 1 /\ addrCh = <<>>
    /\ addrChClosed <=> addrCloses >= 1
    /\ ~panicked

\* C4: Serve publishes exactly the child's first line trimmed of surrounding
\* whitespace, every Address call that finds it returns it with no error,
\* and no other value is ever returned as a successful address.
C4_AddressValueOrig ==
  /\ hsResult = "line" => \A i \in 1..Len(sent) : sent[i] = TrimSpace(FirstLine)
  /\ \A i \in Successes :
       /\ hsResult = "line"
       /\ addrHist[i].val = TrimSpace(FirstLine)
  /\ ~panicked

\* Serve returned from the event loop, after a stop signal.
StoppedAndReturned == servePc = "done" /\ serveRet \in {"nil", "wait_err"}

\* C5: after the event loop has received a stop signal, Executor.Close is
\* invoked and Serve eventually returns (as long as the process lives), and
\* it never returns on this path before the child has exited.
C5_StopShutsDownOrig ==
  /\ [](StoppedAndReturned => child = "exited")
  /\ (servePc = "closing" /\ hsResult = "line") ~> (servePc = "done" \/ panicked)

\* The texts of the records of one level, in the order they were logged.
TextsOf(level) ==
  LET recs == SelectSeq(logs, LAMBDA r : r.level = level)
  IN  [k \in 1..Len(recs) |-> recs[k].text]

\* The lines the child has printed on stderr so far.
WrittenErr == SubSeq(script.err, 1, written.err)

\* The lines the child has printed on stdout after the first one.
WrittenOutLog == SubSeq(script.out, 2, written.out)

IsPrefix(p, q) == Len(p) <= Len(q) /\ \A k \in 1..Len(p) : p[k] = q[k]

\* C6: every line the child printed on stderr is logged exactly once as a
\* debug record tagged with the machine name: never twice, and (after a
\* handshake that read a line) none is missing once Serve has returned after
\* the stop signal.
C6_NoStderrLostOrig ==
  /\ \A i \in 1..Len(logs) : logs[i].tag = MachineName
  /\ IsPrefix(TextsOf("debug"), WrittenErr)
  /\ StoppedAndReturned /\ hsResult = "line" => TextsOf("debug") = WrittenErr

C8_CloseAfterReadsOrig ==
  servePc = "closing" /\ hsResult = "line" =>
    \A s \in Streams : relayPc[s] = "done"

\* A step in which caller c's Address call returns the timeout error.
TimedOutStep(c) ==
  /\ addrPc[c] = "select"
  /\ addrPc'[c] = "idle"
  /\ Len(addrHist') = Len(addrHist) + 1
  /\ addrHist'[Len(addrHist')].err = "timeout"

\* A step of caller c's Address call, made after an earlier call timed out,
\* while the published value waits in addrCh and the timer has not fired.
RetryStep(c) ==
  /\ \E i \in 1..Len(addrHist) : addrHist[i].err = "timeout"
  /\ addrPc[c] = "select"
  /\ ~timerFired[c]
  /\ addrCh # <<>>
  /\ addrPc'[c] # addrPc[c] \/ panicked' # panicked \/ addrHist' # addrHist

\* C9: an Address call that times out returns the empty address and the
\* timeout error under the (defaulted) 10s timeout, leaves addrCh open and
\* untouched and lbp.Addr empty, and changes nothing of Serve, its event loop,
\* the relays or the child; the retry that then finds the published value
\* returns it with no error.
C9_TimeoutPreserves ==
  [][\A c \in Callers :
       /\ TimedOutStep(c) =>
            /\ addrHist'[Len(addrHist')].val = <<>>
            /\ timeout = defaultTimeout /\ timeout' = timeout
            /\ addrCh' = addrCh
            /\ ~addrChClosed /\ ~addrChClosed'
            /\ Addr' = <<>>
            /\ ~panicked'
            /\ UNCHANGED << serveVars, childVars, consumed, pipesClosed,
                            relayVars, logs, closeVars, ghostVars >>
       /\ RetryStep(c) =>
            /\ addrHist' = Append(addrHist, AddrOk(sent[1]))
            /\ Addr' = sent[1]
            /\ ~panicked'
    ]_vars

\* C9 witness: one call timed out, the handshake completed, the retry
\* returned the published address.
C9_Witness ==
  /\ Len(sent) = 1
  /\ addrHist = << AddrTimedOut, AddrOk(sent[1]) >>
  /\ timeout = defaultTimeout
  /\ servePc = "loop"

\* C10: when Executor.Start fails, Serve returns that error at once: no child
\* runs, the handshake is never read, nothing is sent on addrCh (so no
\* Address call succeeds), no relay is started, nothing is logged and
\* Executor.Close is never invoked.
C10_StartFailure ==
  /\ servePc \notin {"idle", "start"} /\ child = "none" =>
       servePc = "done" /\ serveRet \in StartErrors
  /\ serveRet \in StartErrors =>
       /\ servePc = "done"
       /\ child = "none"
       /\ hsResult = "none"
       /\ sent = <<>> /\ addrCh = <<>> /\ ~addrChClosed
       /\ Successes = {}
       /\ \A s \in Streams : relayPc[s] = "none"
       /\ logs = <<>>
       /\ ~pipesClosed

\* C10 witness: Start failed, Serve returned its error, an Address call has
\* timed out and a Close call is blocked.
C10_Witness ==
  /\ serveRet \in StartErrors
  /\ addrHist # <<>>
  /\ closePc = "send"


\* C11: after a stop signal Serve returns nil exactly when cmd.Wait succeeded
\* (the child exited with status 0) and the wait error when the child failed
\* or was killed; Serve returns nil on no other path.
C11_StopResult ==
  /\ serveRet = "nil" =>
       servePc = "done" /\ closeReturns = 1 /\ child = "exited" /\ exitStatus = "ok"
  /\ serveRet = "wait_err" =>
       servePc = "done" /\ closeReturns = 1 /\ child = "exited" /\ exitStatus = "fail"
  /\ servePc = "done" /\ closeReturns >= 1 =>
       serveRet = (IF exitStatus = "ok" THEN "nil" ELSE "wait_err")
  /\ servePc = "done" /\ closeReturns = 0 =>
       serveRet \in StartErrors \cup {"handshake_err"}

\* C11 witness: the stop signal was taken, the child had failed, Serve
\* returned the wait error.
C11_Witness ==
  /\ serveRet = "wait_err"
  /\ exitStatus = "fail"
  /\ closeReturns = 1


\* C12: a Plugin.Close call returns exactly in the step in which an event
\* loop in the Serving state receives its signal.  Entering Close changes
\* nothing of Serve (it cancels neither the start nor the handshake); a call
\* stays blocked while Serve is before its event loop, and for ever once
\* Serve has left the loop or returned.
C12_CloseRendezvous ==
  [][ /\ closeReturns' # closeReturns =>
           /\ closeReturns' = closeReturns + 1
           /\ closePc = "send" /\ closePc' = "idle"
           /\ servePc = "loop" /\ servePc' = "closing"
      /\ closePc = "send" /\ closePc' # "send" => closeReturns' = closeReturns + 1
      /\ closePc = "idle" /\ closePc' = "send" =>
           UNCHANGED << serveVars, childVars, relayVars, pluginVars, logs >>
      /\ closePc = "send" /\ servePc # "loop" => closePc' = "send"
      /\ closePc = "send" /\ servePc \in {"closing", "done"} =>
           closePc' = "send" /\ servePc' \in {"closing", "done"}
    ]_vars

\* C12 witness: the first Close returned by rendezvous, Serve has returned,
\* and a second Close is blocked with nobody left to receive.
C12_Witness ==
  /\ closeCalls = 2
  /\ closeReturns = 1
  /\ closePc = "send"
  /\ servePc = "done"


\* C13: every Plugin.Close call puts exactly one stop signal on stopCh and
\* returns in the step in which the event loop takes it: at that moment
\* Executor.Close has not returned, Serve has not returned, and the child is
\* wherever it was.
C13_CloseAsync ==
  /\ [](/\ closeReturns <= closeCalls
        /\ closeCalls - closeReturns = (IF closePc = "send" THEN 1 ELSE 0))
  /\ [][closeReturns' = closeReturns + 1 =>
          /\ servePc' = "closing"
          /\ serveRet' = "none"
          /\ ~pipesClosed'
          /\ UNCHANGED << child, exitStatus, closeCalls >>
       ]_vars

\* C13 witness: Close has returned while the child is still running and
\* Serve is still inside Executor.Close.
C13_Witness ==
  /\ closeReturns = 1
  /\ closePc = "idle"
  /\ child = "running"
  /\ servePc = "closing"
  /\ serveRet = "none"


\* C14: with two Address calls running at once on a Plugin whose handshake
\* published a (non-empty) address, one of them receives the published value
\* and the other never obtains anything from addrCh: the channel is received
\* from once, closed once, nothing panics, and lbp.Addr and every successful
\* result are the published address.
C14_ConcurrentAddressOrig ==
  hsResult = "line" /\ sent # <<>> /\ sent[1] # <<>> =>
    /\ addrRecvs <= 1
    /\ addrCloses <= 1
    /\ ~panicked
    /\ Addr \in {<<>>, sent[1]}
    /\ \A i \in Successes : addrHist[i].val = sent[1]


\* C15: a child spawned by a Start call that no other Start call overlapped
\* inherits its own Executor's driver name and the token value; Start calls
\* that interleave can hand a child another Executor's driver name (the
\* witness).
C15_DriverNameInheritance ==
  \A e \in Executors :
    starts[e].spawned /\ ~starts[e].overlap =>
      /\ starts[e].childDriver = DriverNameOf(e)
      /\ starts[e].childToken = PluginEnvVal

\* C15 witness: one child was spawned by a Start that ran alone and has its
\* own driver name; another was spawned by an interleaved Start and has the
\* driver name of a different Executor.
C15_Witness ==
  /\ \E e \in Executors :
       /\ starts[e].spawned /\ ~starts[e].overlap
       /\ starts[e].childDriver = DriverNameOf(e)
  /\ \E e \in Executors, f \in Executors :
       /\ e # f
       /\ starts[e].spawned /\ starts[e].overlap
       /\ starts[e].childDriver = DriverNameOf(f)


\* C16: a Start call gives its child an overridden identity exactly when
\* both identity variables are non-empty and both parse as integers; with
\* both set and one unparsable it returns a parse error and spawns nothing;
\* with only one or neither set it never reports a parse error and leaves
\* the child's identity alone.
C16_IdentityOverride ==
  LET bothSet == env.uid # <<>> /\ env.gid # <<>>
      bothParse == AtoiOk(env.uid) /\ AtoiOk(env.gid)
  IN  \A e \in Executors :
        /\ starts[e].spawned =>
             (starts[e].cred = "override" <=> bothSet /\ bothParse)
        /\ starts[e].cred = "override" => bothSet /\ bothParse
        /\ bothSet /\ ~bothParse /\ starts[e].pc # "idle" =>
             /\ starts[e].pc = "done"
             /\ starts[e].err \in {"parse_uid", "parse_gid"}
             /\ ~starts[e].spawned
        /\ ~bothSet =>
             /\ starts[e].err \notin {"parse_uid", "parse_gid"}
             /\ starts[e].cred = "inherit"

\* C16 witness: both variables hold integers and a child runs under the
\* overridden identity.
C16_Witness ==
  /\ env.uid = <<"7">> /\ env.gid = <<"7">>
  /\ \E e \in Executors : starts[e].spawned /\ starts[e].cred = "override"


\* The requested name has a directory part.
HasDir(name) == \E i \in 1..Len(name) : name[i] = "/"

\* The path NewPlugin has to search for a request, case by case.
Searched(np) ==
  IF HasDir(np.driverName) THEN np.driverName
  ELSE IF np.driverName \in CoreDrivers
    THEN IF np.isDockerMachine THEN Args0 ELSE <<"rancher-machine">>
    ELSE <<"docker-machine-driver-">> \o np.driverName

\* The searched path resolves to an installed executable.
Resolvable(np) ==
  \/ HasDir(Searched(np)) /\ Searched(np) \in np.installed
  \/ ~HasDir(Searched(np)) /\ PathDir \o Searched(np) \in np.installed

\* No process has been started.
NoProcess ==
  /\ child = "none"
  /\ servePc = "idle"
  /\ \A e \in Executors : starts[e] = NotStarted

Phase ==
  CASE servePc \in {"idle", "start"} -> "NotStarted"
    [] servePc \in {"handshake", "publish"} -> "HandshakePending"
    [] servePc = "loop" -> "Serving"
    [] servePc \in {"closing", "done"} -> "Closed"

PhaseEdges ==
  { <<"NotStarted", "HandshakePending">>, <<"NotStarted", "Closed">>,
    <<"HandshakePending", "Serving">>, <<"HandshakePending", "Closed">>,
    <<"Serving", "Closed">> }

\* C18: every step of a Serve call keeps the lifecycle state or follows
\* NotStarted -> HandshakePending -> Serving -> Closed, going straight to
\* Closed only when Start failed or the handshake read failed; Closed is
\* never left; addrCh is sent to only on the HandshakePending -> Serving
\* step; relay goroutines exist only in Serving and Closed; Executor.Start
\* is called once, from NotStarted, and Executor.Close once, from Serving,
\* with a child that was started.
C18_LifecycleOrder ==
  [][ /\ Phase' # Phase => << Phase, Phase' >> \in PhaseEdges
      /\ Phase = "NotStarted" /\ Phase' = "Closed" =>
           serveRet' \in StartErrors /\ child' = "none" /\ servePc' = "done"
      /\ Phase = "HandshakePending" /\ Phase' = "Closed" =>
           serveRet' = "handshake_err" /\ servePc' = "done"
      /\ sent' # sent =>
           /\ Phase = "HandshakePending" /\ Phase' = "Serving"
           /\ sent = <<>> /\ Len(sent') = 1
      /\ \A s \in Streams :
           /\ relayPc[s] # "none" => Phase \in {"Serving", "Closed"}
           /\ relayPc'[s] # "none" => Phase' \in {"Serving", "Closed"}
      /\ servePc' = "start" => servePc \in {"idle", "start"}
      /\ servePc = "start" /\ servePc' # "start" =>
           child = "none" /\ servePc' \in {"handshake", "done"}
      /\ servePc' = "closing" /\ servePc # "closing" =>
           servePc = "loop" /\ child # "none"
      /\ servePc = "closing" => servePc' \in {"closing", "done"}
      /\ servePc = "done" => servePc' = "done" /\ serveRet' = serveRet
    ]_vars

\* C18 witness: a Serve call went through all four states: Start succeeded,
\* one address was published, both relays were started, a stop was taken
\* and Serve has returned.
C18_Witness ==
  /\ servePc = "done"
  /\ Len(sent) = 1
  /\ closeReturns = 1
  /\ child = "exited"
  /\ \A s \in Streams : relayPc[s] # "none"


\* C19: once the child has exited and every line it wrote on a stream has
\* been read from the pipe, the relay goroutine of that stream eventually
\* returns, also when the stop signal is taken while it holds a line.
C19_RelayTerminatesOrig ==
  \A s \in Streams :
    (hsResult = "line" /\ relayPc[s] # "none" /\ child = "exited"
       /\ Pending(s) = 0)
      ~> (relayPc[s] = "done" \/ panicked)


\* The lines the two relay goroutines have taken from their scanners.
Relayed ==
  consumed.out + consumed.err - (IF hsResult = "line" THEN 1 ELSE 0)

\* The relay goroutines that hold a line they have not handed over.
Holding == { s \in Streams : relayPc[s] = "send" }

\* C20: Serve leaves the event loop only by taking a stop signal (never
\* because the child exited or a stream ended); every log record is a line
\* a relay goroutine read, so none is emitted once both have returned; and
\* a Close call made while the loop sits with both streams exhausted is
\* still taken, after which Serve returns (unless the runtime has panicked).
C20_LeavesServingOnStop ==
  /\ [][ servePc = "loop" /\ servePc' # "loop" =>
           /\ closePc = "send" /\ closeReturns' = closeReturns + 1
           /\ servePc' = "closing" /\ serveRet' = "none" ]_vars
  /\ [](Len(logs) + Cardinality(Holding) = Relayed)
  /\ [][ (\A s \in Streams : relayPc[s] = "done") => logs' = logs ]_vars
  /\ (servePc = "loop" /\ closePc = "send"
        /\ \A s \in Streams : relayPc[s] = "done")
       ~> (servePc = "done" \/ panicked)

\* C20 witness: the child has exited, both relay goroutines have returned
\* after delivering lines, no stop has been requested, and Serve is still in
\* its loop.
C20_Witness ==
  /\ servePc = "loop" /\ serveRet = "none"
  /\ child = "exited"
  /\ \A s \in Streams : relayPc[s] = "done"
  /\ Len(logs) >= 2
  /\ closeCalls = 0

====
